---- MODULE Spec2Model ----
(***************************************************************************)
(* Minesweeper (src/script.js): board generation with deferred, safe       *)
(* first-click mine placement, adjacency counts, flood-fill reveal, flag   *)
(* bookkeeping, win/loss transitions, the elapsed-time interval and the    *)
(* input handlers that drive them.                                         *)
(*                                                                         *)
(* A cell object is addressed by its coordinate <<row, col>>; board is a   *)
(* function from coordinates to cell records.  The DOM element of a cell   *)
(* (cell.el) is kept as its class list.                                    *)
(***************************************************************************)
EXTENDS Integers, Sequences, FiniteSets, TLC

(* Board configuration.  The program always plays difficulties.beginner    *)
(* (9 x 9, 10 mines); the model plays a scaled-down board.                 *)
rows == 2
cols == 3
mineCount == 2

(* The interval callback is modelled up to MaxTime ticks.                  *)
MaxTime == 1

VARIABLES board, flagsPlaced, firstClick, gameOver, revealedCount,
          timerInterval, timeElapsed, message, pressTimer, run

vars == <<board, flagsPlaced, firstClick, gameOver, revealedCount,
          timerInterval, timeElapsed, message, pressTimer, run>>

Cells == (0 .. rows - 1) \X (0 .. cols - 1)

(* ---------------------------------------------------------------------- *)
(* The game state as one record, threaded through the functions below.    *)
(* ---------------------------------------------------------------------- *)
Cur == [board |-> board, flagsPlaced |-> flagsPlaced, firstClick |-> firstClick,
        gameOver |-> gameOver, revealedCount |-> revealedCount,
        timerInterval |-> timerInterval, timeElapsed |-> timeElapsed,
        message |-> message]

Set(s) == /\ board' = s.board
          /\ flagsPlaced' = s.flagsPlaced
          /\ firstClick' = s.firstClick
          /\ gameOver' = s.gameOver
          /\ revealedCount' = s.revealedCount
          /\ timerInterval' = s.timerInterval
          /\ timeElapsed' = s.timeElapsed
          /\ message' = s.message

(* ---------------------------------------------------------------------- *)
(* Timer                                                                  *)
(* ---------------------------------------------------------------------- *)
stopTimer(s) == IF s.timerInterval THEN [s EXCEPT !.timerInterval = FALSE] ELSE s

startTimer(s) == IF s.timerInterval THEN s ELSE [s EXCEPT !.timerInterval = TRUE]

resetTimer_NoZero(s) == stopTimer(s)

resetTimer(s) == [stopTimer(s) EXCEPT !.timeElapsed = 0]

(* ---------------------------------------------------------------------- *)
(* Board construction                                                     *)
(* ---------------------------------------------------------------------- *)
createEmptyBoard == [cell \in Cells |->
                       [mine |-> FALSE, adjacent |-> 0, revealed |-> FALSE,
                        flagged |-> FALSE,
                        el |-> [classes |-> {}]]]

renderBoard(b) == [cell \in Cells |->
                     [b[cell] EXCEPT !.el = [classes |-> {"covered"}]]]

(* ---------------------------------------------------------------------- *)
(* Neighbours and adjacency                                               *)
(* ---------------------------------------------------------------------- *)
Deltas == << <<-1, -1>>, <<-1, 0>>, <<-1, 1>>,
             << 0, -1>>,            << 0, 1>>,
             << 1, -1>>, << 1, 0>>, << 1, 1>> >>

InBounds_OffByOne(nr, nc) == nr >= 0 /\ nr < rows /\ nc > 0 /\ nc < cols

InBounds(nr, nc) == nr >= 0 /\ nr < rows /\ nc >= 0 /\ nc < cols

getNeighbors(r, c) ==
  LET cand == [i \in 1 .. 8 |-> <<r + Deltas[i][1], c + Deltas[i][2]>>]
      keep(p) == InBounds(p[1], p[2])
  IN  SelectSeq(cand, keep)

RECURSIVE SumMines(_, _, _)
SumMines(b, ns, acc) ==
  IF ns = << >> THEN acc
  ELSE SumMines(b, Tail(ns), acc + (IF b[Head(ns)].mine THEN 1 ELSE 0))

countAdjacentMines(b, r, c) == SumMines(b, getNeighbors(r, c), 0)

(* ---------------------------------------------------------------------- *)
(* Mine placement.  Math.random is a free choice of a coordinate; a draw  *)
(* that hits a mine or the safe zone is rejected and the loop draws       *)
(* again, so the loop's possible results are the boards reached through   *)
(* accepted draws.                                                        *)
(* ---------------------------------------------------------------------- *)
AcceptDraw_AvoidNeighbors(b, safeZone, cell) ==
  /\ ~b[cell].mine
  /\ cell \notin safeZone
  /\ \A z \in safeZone :
       LET ns == getNeighbors(z[1], z[2])
       IN  \A i \in 1 .. Len(ns) : ns[i] # cell

AcceptDraw_NoSafeZone(b, safeZone, cell) == ~b[cell].mine

AcceptDraw_NoMineCheck(b, safeZone, cell) == cell \notin safeZone

AcceptDraw(b, safeZone, cell) == ~b[cell].mine /\ cell \notin safeZone

RECURSIVE PlaceLoop(_, _, _)
PlaceLoop(b, placed, safeZone) ==
  IF ~(placed < mineCount) THEN {b}
  ELSE UNION { PlaceLoop([b EXCEPT ![cell].mine = TRUE], placed + 1, safeZone) :
                 cell \in {d \in Cells : AcceptDraw(b, safeZone, d)} }

SetAdjacent(b) == [cell \in Cells |->
                     IF ~b[cell].mine
                       THEN [b[cell] EXCEPT !.adjacent = countAdjacentMines(b, cell[1], cell[2])]
                       ELSE b[cell]]

placeMines(b, safeRow, safeCol) ==
  { SetAdjacent(m) : m \in PlaceLoop(b, 0, {<<safeRow, safeCol>>}) }

(* ---------------------------------------------------------------------- *)
(* Flags                                                                  *)
(* ---------------------------------------------------------------------- *)
toggleFlag_NoRevealedCheck(s, cell) ==
  IF ~s.board[cell].flagged
    THEN [s EXCEPT !.board[cell].flagged = TRUE,
                   !.flagsPlaced = @ + 1,
                   !.board[cell].el.classes = @ \cup {"flagged"}]
    ELSE [s EXCEPT !.board[cell].flagged = FALSE,
                   !.flagsPlaced = @ - 1,
                   !.board[cell].el.classes = @ \ {"flagged"}]

toggleFlag(s, cell) ==
  IF s.board[cell].revealed THEN s
  ELSE IF ~s.board[cell].flagged
    THEN [s EXCEPT !.board[cell].flagged = TRUE,
                   !.flagsPlaced = @ + 1,
                   !.board[cell].el.classes = @ \cup {"flagged"}]
    ELSE [s EXCEPT !.board[cell].flagged = FALSE,
                   !.flagsPlaced = @ - 1,
                   !.board[cell].el.classes = @ \ {"flagged"}]

(* ---------------------------------------------------------------------- *)
(* Flood fill: FIFO worklist with a visited set                           *)
(* ---------------------------------------------------------------------- *)
FloodEligible_OnlyCovered(n) == ~n.revealed

FloodEligible_IgnoreFlag(n) == ~n.revealed /\ ~n.mine

FloodEligible(n) == ~n.revealed /\ ~n.flagged /\ ~n.mine

FloodRevealOne_NoCount(s, n) ==
  [s EXCEPT !.board[n].revealed = TRUE,
            !.board[n].el.classes =
               IF s.board[n].adjacent > 0
                 THEN (@ \ {"covered"}) \cup {"revealed"}
                 ELSE (@ \ {"covered"}) \cup {"revealed", "zero"}]

FloodRevealOne(s, n) ==
  [s EXCEPT !.board[n].revealed = TRUE,
            !.revealedCount = @ + 1,
            !.board[n].el.classes =
               IF s.board[n].adjacent > 0
                 THEN (@ \ {"covered"}) \cup {"revealed"}
                 ELSE (@ \ {"covered"}) \cup {"revealed", "zero"}]

RECURSIVE FloodNeighbors(_, _, _)
FloodNeighbors(s, queue, ns) ==
  IF ns = << >> THEN [s |-> s, queue |-> queue]
  ELSE LET n == Head(ns) IN
       IF FloodEligible(s.board[n])
         THEN FloodNeighbors(FloodRevealOne(s, n),
                             IF s.board[n].adjacent > 0 THEN queue ELSE Append(queue, n),
                             Tail(ns))
         ELSE FloodNeighbors(s, queue, Tail(ns))

RECURSIVE FloodLoop(_, _, _)
FloodLoop(s, queue, visited) ==
  IF queue = << >> THEN s
  ELSE LET cell == Head(queue)
           rest == Tail(queue)
       IN  IF cell \in visited THEN FloodLoop(s, rest, visited)
           ELSE LET r == FloodNeighbors(s, rest, getNeighbors(cell[1], cell[2]))
                IN  FloodLoop(r.s, r.queue, visited \cup {cell})

floodReveal(s, startCell) == FloodLoop(s, <<startCell>>, {})

(* ---------------------------------------------------------------------- *)
(* End of game                                                            *)
(* ---------------------------------------------------------------------- *)
checkWin_Strict(s) == s.revealedCount > rows * cols - mineCount /\ ~s.gameOver

checkWin(s) == s.revealedCount >= rows * cols - mineCount /\ ~s.gameOver


revealAllMinesCell_SkipFlagged(cell, won) ==
  IF cell.mine /\ ~cell.revealed /\ ~cell.flagged
    THEN [cell EXCEPT !.revealed = TRUE,
                      !.el.classes = (@ \ {"covered"}) \cup {"revealed", "mine"}]
  ELSE IF ~cell.mine /\ cell.flagged /\ ~won
    THEN [cell EXCEPT !.el.classes = @ \cup {"incorrect-flag"}]
  ELSE cell

revealAllMinesCell(cell, won) ==
  IF cell.mine /\ ~cell.revealed
    THEN [cell EXCEPT !.revealed = TRUE,
                      !.el.classes = (@ \ {"covered"}) \cup {"revealed", "mine"}]
  ELSE IF ~cell.mine /\ cell.flagged /\ ~won
    THEN [cell EXCEPT !.el.classes = @ \cup {"incorrect-flag"}]
  ELSE cell

revealAllMines(b, won) == [cell \in Cells |-> revealAllMinesCell(b[cell], won)]

endGame_NoStop(s, win) ==
  LET s1 == [s EXCEPT !.gameOver = TRUE]
  IN  [s1 EXCEPT !.message = IF win THEN "win" ELSE "lose",
                 !.board = revealAllMines(s1.board, win)]

endGame(s, win) ==
  LET s1 == stopTimer([s EXCEPT !.gameOver = TRUE])
  IN  [s1 EXCEPT !.message = IF win THEN "win" ELSE "lose",
                 !.board = revealAllMines(s1.board, win)]

(* ---------------------------------------------------------------------- *)
(* Reveal                                                                 *)
(* ---------------------------------------------------------------------- *)
RevealFirst(s, cell) ==
  IF s.firstClick
    THEN { startTimer([s EXCEPT !.board = b, !.firstClick = FALSE]) :
             b \in placeMines(s.board, cell[1], cell[2]) }
    ELSE {s}

RevealOpen_WinFirst(s, cell) ==
  LET s1 == [s EXCEPT !.board[cell].revealed = TRUE,
                      !.revealedCount = @ + 1,
                      !.board[cell].el.classes = (@ \ {"covered"}) \cup {"revealed"}]
  IN  IF checkWin(s1) THEN endGame(s1, TRUE)
      ELSE IF s1.board[cell].mine
        THEN endGame([s1 EXCEPT !.board[cell].el.classes = @ \cup {"mine"}], FALSE)
        ELSE IF s1.board[cell].adjacent = 0
               THEN floodReveal([s1 EXCEPT !.board[cell].el.classes = @ \cup {"zero"}], cell)
               ELSE s1

RevealOpen(s, cell) ==
  LET s1 == [s EXCEPT !.board[cell].revealed = TRUE,
                      !.revealedCount = @ + 1,
                      !.board[cell].el.classes = (@ \ {"covered"}) \cup {"revealed"}]
  IN  IF s1.board[cell].mine
        THEN endGame([s1 EXCEPT !.board[cell].el.classes = @ \cup {"mine"}], FALSE)
        ELSE LET s2 == IF s1.board[cell].adjacent = 0
                         THEN floodReveal([s1 EXCEPT !.board[cell].el.classes = @ \cup {"zero"}], cell)
                         ELSE s1
             IN  IF checkWin(s2) THEN endGame(s2, TRUE) ELSE s2

revealCell_IgnoreFlag(s, cell) ==
  IF s.board[cell].revealed THEN {s}
  ELSE { RevealOpen(s1, cell) : s1 \in RevealFirst(s, cell) }

revealCell(s, cell) ==
  IF s.board[cell].revealed \/ s.board[cell].flagged THEN {s}
  ELSE { RevealOpen(s1, cell) : s1 \in RevealFirst(s, cell) }

(* ---------------------------------------------------------------------- *)
(* Reset                                                                  *)
(* ---------------------------------------------------------------------- *)
resetGame_KeepFlags(s) ==
  [resetTimer(stopTimer(s)) EXCEPT !.message = "",
                                   !.gameOver = FALSE,
                                   !.revealedCount = 0,
                                   !.firstClick = TRUE,
                                   !.board = renderBoard(createEmptyBoard)]

resetGame(s) ==
  [resetTimer(stopTimer(s)) EXCEPT !.message = "",
                                   !.gameOver = FALSE,
                                   !.revealedCount = 0,
                                   !.flagsPlaced = 0,
                                   !.firstClick = TRUE,
                                   !.board = renderBoard(createEmptyBoard)]

(* ---------------------------------------------------------------------- *)
(* Initial state: the module-level initialisers followed by resetGame()   *)
(* ---------------------------------------------------------------------- *)
NoPress == [armed |-> FALSE, row |-> 0, col |-> 0, moved |-> FALSE, attached |-> TRUE]

(* The progress of the reveal that is currently executing: pc is the      *)
(* position in revealCell ("idle" between handlers), cell its argument,   *)
(* placed the counter of placeMines, queue and visited the worklist of    *)
(* floodReveal, and enq the history of every cell pushed on the queue.    *)
NoRun == [pc |-> "idle", cell |-> <<0, 0>>, placed |-> 0,
          queue |-> << >>, visited |-> {}, enq |-> << >>]

Loaded == [board |-> createEmptyBoard, flagsPlaced |-> 0, firstClick |-> TRUE,
           gameOver |-> FALSE, revealedCount |-> 0, timerInterval |-> FALSE,
           timeElapsed |-> 0, message |-> ""]

Init == /\ board = resetGame(Loaded).board
        /\ flagsPlaced = resetGame(Loaded).flagsPlaced
        /\ firstClick = resetGame(Loaded).firstClick
        /\ gameOver = resetGame(Loaded).gameOver
        /\ revealedCount = resetGame(Loaded).revealedCount
        /\ timerInterval = resetGame(Loaded).timerInterval
        /\ timeElapsed = resetGame(Loaded).timeElapsed
        /\ message = resetGame(Loaded).message
        /\ pressTimer = NoPress
        /\ run = NoRun

(* ---------------------------------------------------------------------- *)
(* Handlers                                                               *)
(* ---------------------------------------------------------------------- *)
onCellClick(cell) ==
  /\ IF gameOver THEN UNCHANGED <<board, flagsPlaced, firstClick, gameOver, revealedCount,
                                  timerInterval, timeElapsed, message>>
     ELSE IF board[cell].flagged
       THEN UNCHANGED <<board, flagsPlaced, firstClick, gameOver, revealedCount,
                        timerInterval, timeElapsed, message>>
     ELSE \E s \in revealCell(Cur, cell) : Set(s)
  /\ UNCHANGED <<pressTimer, run>>

onCellRightClick(cell) ==
  /\ IF gameOver THEN UNCHANGED <<board, flagsPlaced, firstClick, gameOver, revealedCount,
                                  timerInterval, timeElapsed, message>>
     ELSE IF board[cell].revealed
       THEN UNCHANGED <<board, flagsPlaced, firstClick, gameOver, revealedCount,
                        timerInterval, timeElapsed, message>>
     ELSE Set(toggleFlag(Cur, cell))
  /\ UNCHANGED <<pressTimer, run>>

Keys == {"Enter", " ", "Spacebar", "f", "F", "ArrowUp"}

onCellKeyDown(cell, key) ==
  /\ IF gameOver THEN UNCHANGED <<board, flagsPlaced, firstClick, gameOver, revealedCount,
                                  timerInterval, timeElapsed, message>>
     ELSE IF key \in {"Enter", " ", "Spacebar"}
       THEN IF ~board[cell].flagged
              THEN \E s \in revealCell(Cur, cell) : Set(s)
              ELSE UNCHANGED <<board, flagsPlaced, firstClick, gameOver, revealedCount,
                               timerInterval, timeElapsed, message>>
     ELSE IF key \in {"f", "F"}
       THEN IF ~board[cell].revealed
              THEN Set(toggleFlag(Cur, cell))
              ELSE UNCHANGED <<board, flagsPlaced, firstClick, gameOver, revealedCount,
                               timerInterval, timeElapsed, message>>
     ELSE UNCHANGED <<board, flagsPlaced, firstClick, gameOver, revealedCount,
                      timerInterval, timeElapsed, message>>
  /\ UNCHANGED <<pressTimer, run>>

onResetClick ==
  /\ Set(resetGame(Cur))
  /\ pressTimer' = IF pressTimer.armed THEN [pressTimer EXCEPT !.attached = FALSE]
                   ELSE pressTimer
  /\ UNCHANGED run

onTimerTick ==
  /\ timerInterval
  /\ timeElapsed < MaxTime
  /\ timeElapsed' = timeElapsed + 1
  /\ UNCHANGED <<board, flagsPlaced, firstClick, gameOver, revealedCount,
                 timerInterval, message, pressTimer, run>>

Next == \/ \E cell \in Cells : onCellClick(cell)
        \/ \E cell \in Cells : onCellRightClick(cell)
        \/ \E cell \in Cells, key \in Keys : onCellKeyDown(cell, key)
        \/ onResetClick
        \/ onTimerTick

Spec == Init /\ [][Next]_vars

(* ---------------------------------------------------------------------- *)
(* Long press (touch).  One finger: a touch starts only when no other     *)
(* press is pending.  pressTimer is the pending timeout of the touched    *)
(* element: the element's coordinates, its closure variable moved, and    *)
(* whether the element is still a child of the board element.  Once the   *)
(* callback has run nothing is pending any more, so onLongPress leaves    *)
(* pressTimer as touchend does (clearTimeout of a fired timer is a no-op).*)
(* ---------------------------------------------------------------------- *)
onTouchStart(cell) ==
  /\ ~pressTimer.armed
  /\ pressTimer' = [armed |-> TRUE, row |-> cell[1], col |-> cell[2],
                    moved |-> FALSE, attached |-> TRUE]
  /\ UNCHANGED <<board, flagsPlaced, firstClick, gameOver, revealedCount,
                 timerInterval, timeElapsed, message, run>>

onTouchMove ==
  /\ pressTimer.armed
  /\ pressTimer' = [pressTimer EXCEPT !.moved = TRUE]
  /\ UNCHANGED <<board, flagsPlaced, firstClick, gameOver, revealedCount,
                 timerInterval, timeElapsed, message, run>>

onTouchEnd ==
  /\ pressTimer.armed
  /\ pressTimer' = NoPress
  /\ UNCHANGED run
  /\ UNCHANGED <<board, flagsPlaced, firstClick, gameOver, revealedCount,
                 timerInterval, timeElapsed, message>>

getCellFromEvent(el) == <<el.row, el.col>>

onLongPress_NoGameOver ==
  /\ pressTimer.armed
  /\ LET cell == getCellFromEvent(pressTimer) IN
       IF ~pressTimer.moved /\ ~board[cell].revealed
         THEN Set(toggleFlag(Cur, cell))
         ELSE UNCHANGED <<board, flagsPlaced, firstClick, gameOver, revealedCount,
                          timerInterval, timeElapsed, message>>
  /\ pressTimer' = NoPress
  /\ UNCHANGED run

onLongPress ==
  /\ pressTimer.armed
  /\ LET cell == getCellFromEvent(pressTimer) IN
       IF ~pressTimer.moved /\ ~board[cell].revealed /\ ~gameOver
         THEN Set(toggleFlag(Cur, cell))
         ELSE UNCHANGED <<board, flagsPlaced, firstClick, gameOver, revealedCount,
                          timerInterval, timeElapsed, message>>
  /\ pressTimer' = NoPress
  /\ UNCHANGED run

NextTouch == \/ \E cell \in Cells : onCellClick(cell)
             \/ \E cell \in Cells : onCellRightClick(cell)
             \/ \E cell \in Cells, key \in Keys : onCellKeyDown(cell, key)
             \/ onResetClick
             \/ \E cell \in Cells : onTouchStart(cell)
             \/ onTouchMove
             \/ onTouchEnd
             \/ onLongPress

SpecTouch == Init /\ [][NextTouch]_vars

(* ---------------------------------------------------------------------- *)
(* Direct calls of the functions exposed on window.__Minesweeper__        *)
(* ---------------------------------------------------------------------- *)
apiRevealCell(cell) ==
  /\ \E s \in revealCell(Cur, cell) : Set(s)
  /\ UNCHANGED <<pressTimer, run>>

apiToggleFlag(cell) ==
  /\ Set(toggleFlag(Cur, cell))
  /\ UNCHANGED <<pressTimer, run>>

(* ---------------------------------------------------------------------- *)
(* Pointer input: mouse clicks, the reset button, a finger resting on a   *)
(* cell, and the interval callback                                         *)
(* ---------------------------------------------------------------------- *)
NextPointer == \/ \E cell \in Cells : onCellClick(cell)
               \/ \E cell \in Cells : onCellRightClick(cell)
               \/ onResetClick
               \/ onTimerTick
               \/ \E cell \in Cells : onTouchStart(cell)
               \/ onTouchEnd

SpecPointer == Init /\ [][NextPointer]_vars

NextApi == \/ \E cell \in Cells : onCellClick(cell)
           \/ \E cell \in Cells : onCellRightClick(cell)
           \/ \E cell \in Cells, key \in Keys : onCellKeyDown(cell, key)
           \/ onResetClick
           \/ \E cell \in Cells : apiRevealCell(cell)
           \/ \E cell \in Cells : apiToggleFlag(cell)

SpecApi == Init /\ [][NextApi]_vars

(* ---------------------------------------------------------------------- *)
(* One reveal, statement by statement.  A handler runs to completion      *)
(* before the next event is dispatched, so every other action waits for   *)
(* run.pc = "idle".                                                       *)
(* ---------------------------------------------------------------------- *)
StepBegin(cell) ==
  /\ run.pc = "idle"
  /\ ~gameOver
  /\ ~board[cell].flagged
  /\ ~board[cell].revealed
  /\ run' = [NoRun EXCEPT !.pc = IF firstClick THEN "place" ELSE "open",
                          !.cell = cell]
  /\ UNCHANGED <<board, flagsPlaced, firstClick, gameOver, revealedCount,
                 timerInterval, timeElapsed, message, pressTimer>>

(* One iteration of the while loop of placeMines with the draw (r, c) = d; *)
(* a rejected draw (continue) leaves the state as it was.                  *)
StepDraw(d) ==
  /\ run.pc = "place"
  /\ run.placed < mineCount
  /\ IF AcceptDraw(board, {run.cell}, d)
       THEN /\ board' = [board EXCEPT ![d].mine = TRUE]
            /\ run' = [run EXCEPT !.placed = @ + 1]
       ELSE UNCHANGED <<board, run>>
  /\ UNCHANGED <<flagsPlaced, firstClick, gameOver, revealedCount,
                 timerInterval, timeElapsed, message, pressTimer>>

StepPlaced ==
  /\ run.pc = "place"
  /\ ~(run.placed < mineCount)
  /\ Set(startTimer([Cur EXCEPT !.board = SetAdjacent(board), !.firstClick = FALSE]))
  /\ run' = [run EXCEPT !.pc = "open"]
  /\ UNCHANGED pressTimer

StepOpen ==
  /\ run.pc = "open"
  /\ LET cell == run.cell
         s1 == [Cur EXCEPT !.board[cell].revealed = TRUE,
                           !.revealedCount = @ + 1,
                           !.board[cell].el.classes = (@ \ {"covered"}) \cup {"revealed"}]
     IN  IF s1.board[cell].mine
           THEN /\ Set(endGame([s1 EXCEPT !.board[cell].el.classes = @ \cup {"mine"}], FALSE))
                /\ run' = NoRun
         ELSE IF s1.board[cell].adjacent = 0
           THEN /\ Set([s1 EXCEPT !.board[cell].el.classes = @ \cup {"zero"}])
                /\ run' = [run EXCEPT !.pc = "flood", !.queue = <<cell>>,
                                      !.enq = <<cell>>]
         ELSE /\ Set(IF checkWin(s1) THEN endGame(s1, TRUE) ELSE s1)
              /\ run' = NoRun
  /\ UNCHANGED pressTimer

(* One iteration of the while loop of floodReveal. *)
StepFlood ==
  /\ run.pc = "flood"
  /\ run.queue # << >>
  /\ LET cell == Head(run.queue)
         rest == Tail(run.queue)
     IN  IF cell \in run.visited
           THEN /\ run' = [run EXCEPT !.queue = rest]
                /\ UNCHANGED <<board, flagsPlaced, firstClick, gameOver, revealedCount,
                               timerInterval, timeElapsed, message>>
         ELSE LET r == FloodNeighbors(Cur, rest, getNeighbors(cell[1], cell[2]))
              IN  /\ Set(r.s)
                  /\ run' = [run EXCEPT !.queue = r.queue,
                                        !.visited = @ \cup {cell},
                                        !.enq = @ \o SubSeq(r.queue, Len(rest) + 1,
                                                            Len(r.queue))]
  /\ UNCHANGED pressTimer

StepFloodDone ==
  /\ run.pc = "flood"
  /\ run.queue = << >>
  /\ Set(IF checkWin(Cur) THEN endGame(Cur, TRUE) ELSE Cur)
  /\ run' = NoRun
  /\ UNCHANGED pressTimer

StepFlag(cell) ==
  /\ run.pc = "idle"
  /\ onCellRightClick(cell)

StepReset ==
  /\ run.pc = "idle"
  /\ onResetClick

NextSteps == \/ \E cell \in Cells : StepBegin(cell)
             \/ \E d \in Cells : StepDraw(d)
             \/ StepPlaced
             \/ StepOpen
             \/ StepFlood
             \/ StepFloodDone
             \/ \E cell \in Cells : StepFlag(cell)
             \/ StepReset

(* The engine keeps executing a handler it has entered, and the random    *)
(* draws are fair: a draw that can be accepted is eventually made.        *)
SpecSteps == /\ Init
             /\ [][NextSteps]_vars
             /\ WF_vars(\E d \in Cells : StepDraw(d))
             /\ WF_vars(StepPlaced)
             /\ WF_vars(StepOpen)
             /\ WF_vars(StepFlood)
             /\ WF_vars(StepFloodDone)

(* ====================================================================== *)
(* Properties                                                             *)
(* ====================================================================== *)
MineCells(b) == {cell \in Cells : b[cell].mine}

RevealedCells(b) == {cell \in Cells : b[cell].revealed}

FlaggedCells(b) == {cell \in Cells : b[cell].flagged}

totalSafe == rows * cols - mineCount

Won == gameOver /\ message = "win"

Lost == gameOver /\ message = "lose"

(* The step is a reveal command on cell issued through a UI handler.      *)
RevealCommand(cell) ==
  \/ onCellClick(cell)
  \/ \E key \in {"Enter", " ", "Spacebar"} : onCellKeyDown(cell, key)

(* The step is an accepted reveal of cell: the game is on and the cell is *)
(* covered and unflagged.                                                 *)
AcceptedReveal(cell) ==
  /\ ~gameOver
  /\ ~board[cell].revealed
  /\ ~board[cell].flagged
  /\ RevealCommand(cell)

(* Brute-force neighbour scan, independent of getNeighbors.               *)
Abs(x) == IF x < 0 THEN -x ELSE x

Adjacent8(a, b) == a # b /\ Abs(a[1] - b[1]) <= 1 /\ Abs(a[2] - b[2]) <= 1

ScanMines(b, cell) == Cardinality({d \in Cells : Adjacent8(cell, d) /\ b[d].mine})

(* C1: the first accepted reveal after a reset places the mines so that   *)
(* the revealed cell is not a mine, and it never ends the game in Lost.   *)
C1_FirstRevealSafe ==
  [][\A cell \in Cells :
       (firstClick /\ AcceptedReveal(cell))
         => (~firstClick' /\ ~board'[cell].mine /\ board'[cell].revealed /\ ~Lost')]_vars

C1_Witness ==
  /\ ~firstClick
  /\ ~gameOver
  /\ revealedCount = 1
  /\ Cardinality(MineCells(board)) = mineCount
  /\ \E cell \in Cells : board[cell].revealed /\ ~board[cell].mine

(* C2: mine placement is one-shot: no mine while firstClick is true;      *)
(* exactly mineCount distinct mines right after the first accepted        *)
(* reveal; and no step other than a reset changes any cell's mine bit or  *)
(* adjacent count afterwards.                                             *)
C2_PlacementOneShot ==
  [][/\ firstClick => MineCells(board) = {}
     /\ firstClick' => MineCells(board') = {}
     /\ (firstClick /\ ~firstClick') => Cardinality(MineCells(board')) = mineCount
     /\ (~firstClick /\ ~firstClick')
          => \A cell \in Cells : /\ board'[cell].mine = board[cell].mine
                                 /\ board'[cell].adjacent = board[cell].adjacent]_vars

C2_Witness ==
  /\ ~firstClick
  /\ Cardinality(MineCells(board)) = mineCount
  /\ revealedCount >= 2
  /\ flagsPlaced >= 1
  /\ timeElapsed >= 1

(* C3: after placement every non-mine cell's adjacent equals the number   *)
(* of in-bounds king-move neighbours that are mines.                      *)
C3_AdjacentCounts ==
  ~firstClick => \A cell \in Cells :
                   ~board[cell].mine => board[cell].adjacent = ScanMines(board, cell)

C3_Witness ==
  /\ ~firstClick
  /\ \E cell \in Cells : ~board[cell].mine /\ board[cell].adjacent = 0
  /\ \E cell \in Cells : ~board[cell].mine /\ board[cell].adjacent >= 2

(* The 8-connected component of zero-adjacency cells of b that contains   *)
(* the cells of F, and the nonzero non-mine cells bordering a component.  *)
ZeroCell(b, cell) == ~b[cell].mine /\ b[cell].adjacent = 0

RECURSIVE ZeroComponent(_, _)
ZeroComponent(b, F) ==
  LET G == F \cup {d \in Cells : ZeroCell(b, d) /\ \E z \in F : Adjacent8(z, d)}
  IN  IF G = F THEN F ELSE ZeroComponent(b, G)

ZeroBorder(b, comp) ==
  {d \in Cells : ~b[d].mine /\ b[d].adjacent > 0 /\ \E z \in comp : Adjacent8(z, d)}

(* The cells reached from F through zero cells when only the cells that   *)
(* were covered and unflagged in pre (and are no mines in post) count.    *)
RECURSIVE OpenReach(_, _, _)
OpenReach(pre, post, F) ==
  LET G == F \cup {d \in Cells : /\ ~pre[d].revealed /\ ~pre[d].flagged /\ ~post[d].mine
                                 /\ \E z \in F : ZeroCell(post, z) /\ Adjacent8(z, d)}
  IN  IF G = F THEN F ELSE OpenReach(pre, post, G)

(* C4 as stated: an accepted reveal of a covered zero-adjacency cell s    *)
(* leaves revealed exactly the zero component of s plus its border of     *)
(* nonzero non-mine cells, whatever cells are flagged or revealed.        *)
C4_FloodWholeComponent ==
  [][\A s \in Cells :
       (ZeroCell(board', s) /\ ~gameOver' /\ AcceptedReveal(s))
         => LET comp == ZeroComponent(board', {s})
            IN  RevealedCells(board') =
                  RevealedCells(board) \cup comp \cup ZeroBorder(board', comp)]_vars

(* C4 amended: an accepted reveal of a covered zero-adjacency cell s      *)
(* newly reveals, among the non-mine cells, exactly s and the cells that  *)
(* were covered and unflagged before the command and are reached from s   *)
(* through zero-adjacency cells that were themselves covered and          *)
(* unflagged; no revealed cell is covered again.                          *)
C4_FloodOpenComponent ==
  [][\A s \in Cells :
       (ZeroCell(board', s) /\ AcceptedReveal(s))
         => /\ {d \in RevealedCells(board') \ RevealedCells(board) : ~board'[d].mine}
                 = OpenReach(board, board', {s})
            /\ RevealedCells(board) \subseteq RevealedCells(board')]_vars

C4_Witness ==
  /\ ~gameOver
  /\ revealedCount >= 2
  /\ \E z \in Cells : /\ board[z].revealed /\ ZeroCell(board, z)
                       /\ \E n \in Cells : /\ Adjacent8(z, n) /\ board[n].flagged
                                            /\ ~board[n].revealed /\ ~board[n].mine

(* C5 as stated: a reveal command that brings revealedCount to exactly    *)
(* rows*cols - mineCount ends in Won.                                     *)
C5_CountReachedWins ==
  [][\A cell \in Cells :
       (revealedCount # totalSafe /\ revealedCount' = totalSafe /\ AcceptedReveal(cell))
         => Won']_vars

(* C5 amended: a reveal command on a non-mine cell that brings            *)
(* revealedCount to exactly rows*cols - mineCount ends in Won.            *)
C5_SafeCountReachedWins ==
  [][\A cell \in Cells :
       (revealedCount # totalSafe /\ revealedCount' = totalSafe
          /\ ~board'[cell].mine /\ AcceptedReveal(cell))
         => Won']_vars

C5_Witness ==
  /\ Won
  /\ revealedCount = totalSafe
  /\ \A cell \in Cells : ~board[cell].mine => board[cell].revealed

(* C6: an accepted reveal of a mine ends the command in Lost, never Won,  *)
(* whatever the number of safe cells still covered.                       *)
C6_MineRevealLoses ==
  [][\A cell \in Cells :
       (board[cell].mine /\ AcceptedReveal(cell)) => (Lost' /\ ~Won')]_vars

C6_Witness ==
  /\ Lost
  /\ revealedCount = totalSafe
  /\ \E cell \in Cells : ~board[cell].mine /\ ~board[cell].revealed

(* C7: in every reachable state, game over included, no cell is both      *)
(* revealed and flagged.                                                  *)
C7_NeverRevealedAndFlagged ==
  \A cell \in Cells : ~(board[cell].revealed /\ board[cell].flagged)

(* C8: flagsPlaced equals the number of flagged cells of the board.       *)
C8_FlagCount == flagsPlaced = Cardinality(FlaggedCells(board))

C8_Witness ==
  /\ flagsPlaced > mineCount
  /\ ~firstClick
  /\ revealedCount >= 1
  /\ \E cell \in Cells : board[cell].flagged /\ ~board[cell].mine

(* C9: a reveal command on a flagged cell, through a handler or through   *)
(* revealCell itself, changes nothing in any phase: no cell, counter or   *)
(* phase changes, no mines are placed and the timer is not started.       *)
C9_RevealFlaggedNoOp ==
  [][\A cell \in Cells :
       (board[cell].flagged /\ (RevealCommand(cell) \/ apiRevealCell(cell)))
         => UNCHANGED vars]_vars

C9_Witness ==
  /\ firstClick
  /\ ~timerInterval
  /\ MineCells(board) = {}
  /\ \E cell \in Cells : board[cell].flagged /\ ~board[cell].revealed

(* C10: once the game is over, no input handler other than reset changes  *)
(* a cell, revealedCount, flagsPlaced or the phase.                       *)
C10_TerminalAbsorbs ==
  [][gameOver => (onResetClick \/ UNCHANGED <<board, flagsPlaced, firstClick, gameOver,
                                              revealedCount, message>>)]_vars

C10_Witness ==
  /\ gameOver
  /\ pressTimer.armed
  /\ ~pressTimer.moved
  /\ \E cell \in Cells : /\ cell = getCellFromEvent(pressTimer)
                          /\ ~board[cell].revealed /\ ~board[cell].flagged


(* C11: revealCell and toggleFlag called directly after the game has      *)
(* ended leave every cell, revealedCount and flagsPlaced unchanged.       *)
C11_ApiIgnoredAfterEnd ==
  [][\A cell \in Cells :
       (gameOver /\ (apiRevealCell(cell) \/ apiToggleFlag(cell)))
         => UNCHANGED <<board, revealedCount, flagsPlaced>>]_vars

(* C12 as stated: when a reveal hits a mine, no mine other than the       *)
(* clicked one has its revealed bit changed by the transition to Lost.    *)
C12_ExposureDescriptive ==
  [][\A cell \in Cells :
       (board[cell].mine /\ AcceptedReveal(cell))
         => \A d \in Cells \ {cell} :
              board[d].mine => board'[d].revealed = board[d].revealed]_vars


(* C13: from any reachable state, reset yields the initial state: every   *)
(* cell covered, unflagged, non-mine with adjacent 0, revealedCount 0,    *)
(* flagsPlaced 0, firstClick true, gameOver false, timeElapsed 0 and the  *)
(* timer not running; nothing of the previous board survives.             *)
C13_ResetYieldsInitial ==
  [][onResetClick =>
       /\ \A d \in Cells : /\ ~board'[d].mine
                           /\ ~board'[d].revealed
                           /\ ~board'[d].flagged
                           /\ board'[d].adjacent = 0
                           /\ board'[d].el.classes = {"covered"}
       /\ revealedCount' = 0
       /\ flagsPlaced' = 0
       /\ firstClick'
       /\ ~gameOver'
       /\ timeElapsed' = 0
       /\ ~timerInterval'
       /\ message' = ""]_vars

C13_Witness ==
  /\ pressTimer.armed
  /\ ~pressTimer.attached
  /\ firstClick
  /\ ~gameOver
  /\ timeElapsed = 0
  /\ ~timerInterval
  /\ revealedCount = 0
  /\ flagsPlaced = 0
  /\ \A d \in Cells : ~board[d].mine /\ ~board[d].revealed /\ ~board[d].flagged


FlagCommand(cell) ==
  \/ onCellRightClick(cell)
  \/ \E key \in {"f", "F"} : onCellKeyDown(cell, key)
  \/ apiToggleFlag(cell)

(* C14: toggleFlag changes at most the target cell's flagged bit and      *)
(* flagsPlaced (by +1 when the flag is set, -1 when it is removed), and   *)
(* nothing at all when the target is revealed; it never places mines,     *)
(* clears firstClick, starts the timer, changes the phase, any revealed   *)
(* bit or revealedCount.                                                  *)
C14_FlagFrame ==
  [][\A cell \in Cells :
       FlagCommand(cell) =>
         /\ \A d \in Cells \ {cell} : board'[d] = board[d]
         /\ board'[cell].mine = board[cell].mine
         /\ board'[cell].adjacent = board[cell].adjacent
         /\ board'[cell].revealed = board[cell].revealed
         /\ UNCHANGED <<firstClick, gameOver, message, revealedCount,
                        timerInterval, timeElapsed>>
         /\ board[cell].revealed => UNCHANGED <<board, flagsPlaced>>
         /\ flagsPlaced' = IF board'[cell].flagged = board[cell].flagged
                             THEN flagsPlaced
                           ELSE IF board'[cell].flagged THEN flagsPlaced + 1
                           ELSE flagsPlaced - 1]_vars

C14_Witness ==
  /\ ~firstClick
  /\ ~gameOver
  /\ timerInterval
  /\ revealedCount = 1
  /\ flagsPlaced = 2
  /\ \E m, d \in Cells : /\ board[m].mine /\ board[m].flagged /\ ~board[m].revealed
                          /\ ~board[d].mine /\ board[d].flagged /\ ~board[d].revealed


(* C15: the interval timer is active exactly when firstClick is false and *)
(* gameOver is false; timeElapsed is 0 as long as the game has not        *)
(* started, and once the game is won or lost it does not change until the *)
(* next reset.                                                            *)
C15_TimerFollowsPhase ==
  [][/\ timerInterval <=> (~firstClick /\ ~gameOver)
     /\ timerInterval' <=> (~firstClick' /\ ~gameOver')
     /\ firstClick => timeElapsed = 0
     /\ firstClick' => timeElapsed' = 0
     /\ (gameOver /\ gameOver') => timeElapsed' = timeElapsed]_vars

C15_Witness ==
  /\ gameOver
  /\ ~firstClick
  /\ ~timerInterval
  /\ timeElapsed >= 1


NewlyRevealed == {d \in Cells : board'[d].revealed /\ ~board[d].revealed}

(* C16: the flood never reveals a mine and never touches a flagged cell:  *)
(* every cell revealed (and counted) by a reveal of a safe cell is a      *)
(* non-mine cell that was covered and unflagged, and every cell flagged   *)
(* before a reveal command is still flagged after it, and still covered   *)
(* while the game is in progress.                                         *)
C16_FloodSparesMinesAndFlags ==
  [][\A cell \in Cells :
       (~board[cell].revealed /\ board'[cell].revealed /\ AcceptedReveal(cell)) =>
         /\ \A d \in Cells :
              board[d].flagged => /\ board'[d].flagged
                                  /\ ~gameOver' => ~board'[d].revealed
         /\ ~board'[cell].mine =>
              /\ \A d \in NewlyRevealed : ~board'[d].mine => ~board[d].flagged
              /\ ~gameOver' => \A d \in NewlyRevealed : ~board'[d].mine
              /\ revealedCount' = revealedCount
                   + Cardinality({d \in NewlyRevealed : ~board'[d].mine})]_vars

C16_Witness ==
  /\ ~gameOver
  /\ revealedCount >= 3
  /\ \E z \in Cells : board[z].revealed /\ ZeroCell(board, z)
  /\ \E m \in Cells : board[m].mine /\ board[m].flagged /\ ~board[m].revealed
  /\ \E d \in Cells : ~board[d].mine /\ board[d].flagged /\ ~board[d].revealed


(* C17: after a reveal that hits a mine, every mine cell is exposed as a  *)
(* mine (the clicked one and all others, flagged or not), and exactly the *)
(* flagged non-mine cells are marked as incorrect flags; after a win no   *)
(* cell is marked incorrect.                                              *)
C17_EndExposure ==
  /\ Lost => \A d \in Cells :
               /\ board[d].mine => /\ {"revealed", "mine"} \subseteq board[d].el.classes
                                   /\ "covered" \notin board[d].el.classes
               /\ "incorrect-flag" \in board[d].el.classes
                    <=> (~board[d].mine /\ board[d].flagged)
  /\ Won => \A d \in Cells : "incorrect-flag" \notin board[d].el.classes

C17_Witness ==
  /\ Lost
  /\ \E m \in Cells : /\ board[m].mine /\ board[m].flagged
                       /\ "mine" \in board[m].el.classes
  /\ \E d \in Cells : /\ ~board[d].mine /\ board[d].flagged
                       /\ "incorrect-flag" \in board[d].el.classes


(* C19: while the game is not over and is driven through the UI handlers, *)
(* revealedCount equals the number of revealed cells, every revealed cell *)
(* is a non-mine cell and revealedCount < rows*cols - mineCount; the game *)
(* is won only when every non-mine cell is revealed.                      *)
C19_CountInvariant ==
  /\ ~gameOver =>
       /\ revealedCount = Cardinality(RevealedCells(board))
       /\ \A d \in RevealedCells(board) : ~board[d].mine
       /\ revealedCount < rows * cols - mineCount
  /\ Won => \A d \in Cells : ~board[d].mine => board[d].revealed

C19_Witness ==
  /\ ~gameOver
  /\ ~firstClick
  /\ revealedCount = rows * cols - mineCount - 1
  /\ Cardinality(RevealedCells(board)) = revealedCount
  /\ \E z \in RevealedCells(board) : ZeroCell(board, z)


(* C20: a long-press timer armed by touchstart only affects the board on  *)
(* which the touch started: when resetGame has run between touchstart and *)
(* the timeout, the callback flags no cell of the new board and leaves    *)
(* flagsPlaced as the reset left it.                                      *)
C20_StalePressHarmless ==
  [][(pressTimer.armed /\ ~pressTimer.attached /\ onLongPress)
       => UNCHANGED <<board, flagsPlaced>>]_vars


NoDuplicates(q) == \A i, j \in 1 .. Len(q) : i # j => q[i] # q[j]

(* C18: every accepted reveal runs to completion: with mineCount below    *)
(* rows*cols the placement loop ends under fair draws, the flood worklist *)
(* empties, and no cell is pushed on the worklist more than once.         *)
C18_RevealCompletes ==
  /\ [](NoDuplicates(run.enq))
  /\ (run.pc = "place") ~> (run.pc = "open")
  /\ (run.pc # "idle") ~> (run.pc = "idle")

C18_Witness ==
  /\ run.pc = "flood"
  /\ run.visited # {}
  /\ Len(run.enq) >= 2
  /\ Cardinality(MineCells(board)) = mineCount
  /\ \E d \in Cells : board[d].flagged /\ ~board[d].revealed

====
